---- MODULE Spec2Model ----
(***************************************************************************)
(* Model of the conformance and resistance scenarios of the harness:       *)
(*   src/src/tests/conformance/handshake.rs                                *)
(*     handshake_responder_side, handshake_initiator_side,                 *)
(*     reject_non_version_replies_to_version                               *)
(*   src/src/tests/resistance/fuzzing.rs                                   *)
(*     fuzzing_zeroes_pre_handshake, fuzzing_random_bytes_pre_handshake,   *)
(*     fuzzing_metadata_compliant_random_bytes_pre_handshake               *)
(* The node under test is the environment: every read, write, accept and   *)
(* connect of the harness gets its outcome from a nondeterministic choice. *)
(* A future that never completes (an await without a timeout on a silent   *)
(* peer) leaves its task in status "hung"; a panic leaves it "failed".     *)
(***************************************************************************)
EXTENDS Integers, Sequences, FiniteSets, TLC

\* ---------------------------------------------------------------- bounds
\* number of test messages of reject_non_version_replies_to_version taken
\* from the vector of handshake.rs:113-127 (a window of this length)
MaxCases == 2
\* number of payloads a fuzz scenario iterates over (ITERATIONS is 1000)
MaxIterations == 2

\* ------------------------------------------------------------- constants
ITERATIONS == 1000
ReadsPerPayload == 10
RetryBudget == 10

Min(a, b) == IF a < b THEN a ELSE b

NumPayloads == Min(ITERATIONS, MaxIterations)

\* --------------------------------------------------------- message kinds
\* Message variants the node may put on the wire (protocol::message::Message)
MsgKinds == {"Version", "Verack", "Ping", "Pong", "GetAddr"}

\* std::io::ErrorKind values a transport operation may fail with
TerminationKinds == {"ConnectionReset", "ConnectionAborted", "BrokenPipe", "UnexpectedEof"}
OtherErrKinds == {"InvalidData"}
ErrKinds == TerminationKinds \cup OtherErrKinds

\* fuzzing.rs:153-159
is_termination_error(kind) ==
    kind \in {"ConnectionReset", "ConnectionAborted", "BrokenPipe", "UnexpectedEof"}

\* handshake.rs:173-178, the match on err.kind() of the read of step (4)
ReadErrorAccepted(kind) == kind \in {"UnexpectedEof", "ConnectionReset", "ConnectionAborted"}

\* handshake.rs:185-190, the match on err.kind() of the write of step (3)
WriteErrorAccepted(kind) == kind \in {"BrokenPipe", "ConnectionReset", "ConnectionAborted"}

\* the vector test_messages, handshake.rs:113-127
AllTestMessages ==
    <<"GetAddr", "MemPool", "Verack", "Ping", "Pong", "GetAddr", "Addr", "Headers">>

Scenarios == {"responder", "initiator", "reject", "fuzz_zeroes", "fuzz_random", "fuzz_meta"}
FuzzScenarios == {"fuzz_zeroes", "fuzz_random", "fuzz_meta"}

\* results of a transport operation
Ok(v) == [ok |-> TRUE, val |-> v]
Err(e) == [ok |-> FALSE, val |-> e]
ReadResults == {Ok(m) : m \in MsgKinds} \cup {Err(e) : e \in ErrKinds}
WriteResults == {Ok("unit")} \cup {Err(e) : e \in ErrKinds}

\* events of a connection, as the harness observes them
Wrote(m, r) == [op |-> "write", msg |-> m, res |-> IF r.ok THEN "Ok" ELSE r.val]
Read(r) == [op |-> "read", msg |-> IF r.ok THEN r.val ELSE "none",
            res |-> IF r.ok THEN "Ok" ELSE r.val]
Silent == [op |-> "read", msg |-> "none", res |-> "Silence"]

Last(s) == s[Len(s)]

VARIABLES
    scenario,       \* the test function that runs
    pc,             \* position of the test function
    status,         \* "running", "passed", "failed" (panic) or "hung"
    node,           \* the Node handle: state, dial list, calls made on it
    log,            \* events on peer_stream of the handshake scenarios
    listeners,      \* reject: Vec of bound listeners (their ports)
    test_messages,  \* reject: Vec of messages still to hand out
    cases,          \* reject: the vector test_messages as first built
    handles,        \* reject: Vec of spawned tasks
    joined,         \* reject: number of handles awaited so far
    fuzz,           \* fuzz: loop counters and the filtered read in progress
    gen,            \* a payload generator of fuzzing.rs and the vector it builds
    synth           \* the synthetic node an action of synth_node_bin runs on

vars == <<scenario, pc, status, node, log, listeners, test_messages, cases,
          handles, joined, fuzz, gen, synth>>

rejectVars == <<listeners, test_messages, cases, handles, joined>>

\* ------------------------------------------------------------ Node handle
\* setup::node::Node is an external collaborator; the scenarios only call
\* new, initial_peers, start_waits_for_connection, start, addr and stop.
NodeNew == [state |-> "NotStarted", peers |-> {}, waits |-> FALSE, calls |-> <<>>]

NodeCall(n, c) == [n EXCEPT !.calls = Append(@, c)]

NodeInitialPeers(n, ports) ==
    [NodeCall(n, "initial_peers") EXCEPT !.peers = ports]

NodeStartWaits(n) ==
    [NodeCall(n, "start_waits_for_connection") EXCEPT !.waits = TRUE]

NodeStart(n) == [NodeCall(n, "start") EXCEPT !.state = "Running"]

NodeAddr(n) == NodeCall(n, "addr")

NodeStop(n) == [NodeCall(n, "stop") EXCEPT !.state = "Stopped"]

Count(s, c) == Cardinality({i \in DOMAIN s : s[i] = c})

\* iter: connections opened; read: filtered reads completed on the current
\* connection; used: underlying reads of the current (or last) filtered read;
\* last: "loop" while a filtered read is in progress, else what the last one
\* returned; wrote: result of the last write whose result is dropped
\* round: what the last round of the filter read and what it answered
NoRound == [read |-> "none", nonce |-> 0, reply |-> "none", rnonce |-> 0, sent |-> FALSE]
FuzzInit == [iter |-> 0, read |-> 0, used |-> 0,
             last |-> [kind |-> "none", val |-> "none"], wrote |-> "none",
             round |-> NoRound]

\* no generator call and no action of synth_node_bin is in progress
GenIdle == [fn |-> "none", n |-> 0, out |-> <<>>, done |-> FALSE]
SynthIdle == [pc |-> "none"]

\* the windows of MaxCases consecutive entries of the vector test_messages
CaseWindows ==
    {SubSeq(AllTestMessages, o, o + MaxCases - 1) :
        o \in 1..(Len(AllTestMessages) - MaxCases + 1)}

\* the port of the i-th listener bound with zig.new_local_addr()
ListenerPort(i) == i

Init ==
    /\ scenario \in Scenarios
    /\ pc = "begin"
    /\ status = "running"
    /\ node = NodeNew
    /\ log = <<>>
    /\ listeners = <<>>
    /\ cases \in IF scenario = "reject" THEN CaseWindows ELSE {<<>>}
    /\ test_messages = cases
    /\ handles = <<>>
    /\ joined = 0
    /\ fuzz = FuzzInit
    /\ gen = GenIdle
    /\ synth = SynthIdle

Running(sc, p) == scenario = sc /\ status = "running" /\ pc = p

\* a panic of the test function: unwrap() on Err, a failed assert!, panic!
Panic == status' = "failed" /\ UNCHANGED pc

\* ================================================ handshake_responder_side
\* handshake.rs:20-21
ResponderStart ==
    /\ Running("responder", "begin")
    /\ node' = NodeStart(node)
    /\ pc' = "connect"
    /\ UNCHANGED <<gen, synth, scenario, status, log, rejectVars, fuzz>>

\* handshake.rs:23  TcpStream::connect(node.addr()).await.unwrap()
ResponderConnect ==
    /\ Running("responder", "connect")
    /\ node' = NodeAddr(node)
    /\ \E ok \in BOOLEAN :
         IF ok THEN pc' = "writeVersion" /\ UNCHANGED status ELSE Panic
    /\ UNCHANGED <<gen, synth, scenario, log, rejectVars, fuzz>>

\* handshake.rs:25-28  Version::new(node.addr(), ..).write_to_stream().unwrap()
ResponderWriteVersion ==
    /\ Running("responder", "writeVersion")
    /\ node' = NodeAddr(node)
    /\ \E r \in WriteResults :
         /\ log' = Append(log, Wrote("Version", r))
         /\ IF r.ok THEN pc' = "readVersion" /\ UNCHANGED status ELSE Panic
    /\ UNCHANGED <<gen, synth, scenario, rejectVars, fuzz>>

\* handshake.rs:31  assert!(matches!(version, Message::Version(..)))
IsVersion(r) == r.ok /\ r.val = "Version"

\* handshake.rs:39  assert!(matches!(verack, Message::Verack))
\* (variant: any message passes the assertion)
IsVerackAnyMessage(r) == r.ok
IsVerack(r) == r.ok /\ r.val = "Verack"

\* a read without a timeout on a peer that sends nothing never completes
ReadNeverCompletes ==
    /\ status' = "hung"
    /\ UNCHANGED pc

\* handshake.rs:30-31
ResponderReadVersion ==
    /\ Running("responder", "readVersion")
    /\ \/ \E r \in ReadResults :
            /\ log' = Append(log, Read(r))
            /\ IF IsVersion(r) THEN pc' = "writeVerack" /\ UNCHANGED status ELSE Panic
       \/ log' = Append(log, Silent) /\ ReadNeverCompletes
    /\ UNCHANGED <<gen, synth, scenario, node, rejectVars, fuzz>>

\* handshake.rs:33-36
ResponderWriteVerack ==
    /\ Running("responder", "writeVerack")
    /\ \E r \in WriteResults :
         /\ log' = Append(log, Wrote("Verack", r))
         /\ IF r.ok THEN pc' = "readVerack" /\ UNCHANGED status ELSE Panic
    /\ UNCHANGED <<gen, synth, scenario, node, rejectVars, fuzz>>

\* handshake.rs:38-39
ResponderReadVerack ==
    /\ Running("responder", "readVerack")
    /\ \/ \E r \in ReadResults :
            /\ log' = Append(log, Read(r))
            /\ IF IsVerack(r) THEN pc' = "stop" /\ UNCHANGED status ELSE Panic
       \/ log' = Append(log, Silent) /\ ReadNeverCompletes
    /\ UNCHANGED <<gen, synth, scenario, node, rejectVars, fuzz>>

\* handshake.rs:41-42
ResponderStop ==
    /\ Running("responder", "stop")
    /\ node' = NodeStop(node)
    /\ pc' = "done"
    /\ status' = "passed"
    /\ UNCHANGED <<gen, synth, scenario, log, rejectVars, fuzz>>

Responder ==
    \/ ResponderStart
    \/ ResponderConnect
    \/ ResponderWriteVersion
    \/ ResponderReadVersion
    \/ ResponderWriteVerack
    \/ ResponderReadVerack
    \/ ResponderStop

\* ================================================ handshake_initiator_side
\* handshake.rs:48  TcpListener::bind(zig.new_local_addr()).await.unwrap()
InitiatorBind ==
    /\ Running("initiator", "begin")
    /\ \E ok \in BOOLEAN :
         IF ok
         THEN /\ listeners' = <<ListenerPort(1)>>
              /\ pc' = "start"
              /\ UNCHANGED status
         ELSE Panic /\ UNCHANGED listeners
    /\ UNCHANGED <<gen, synth, scenario, node, log, test_messages, cases, handles, joined, fuzz>>

\* (variant: the dial list is given to a node that already runs)
InitiatorStartThenPeers ==
    /\ Running("initiator", "start")
    /\ node' = NodeInitialPeers(NodeStart(node), {listeners[1]})
    /\ pc' = "accept"
    /\ UNCHANGED <<gen, synth, scenario, status, log, rejectVars, fuzz>>

\* handshake.rs:50-53  node.initial_peers(vec![port]).start().await
InitiatorStart ==
    /\ Running("initiator", "start")
    /\ node' = NodeStart(NodeInitialPeers(node, {listeners[1]}))
    /\ pc' = "accept"
    /\ UNCHANGED <<gen, synth, scenario, status, log, rejectVars, fuzz>>

\* handshake.rs:55-56 and 73  listener.accept().await
\* Ok: the node dialled the listener; Err: printed, the match arm ends;
\* the accept has no timeout, so it never completes if the node never dials.
InitiatorAccept ==
    /\ Running("initiator", "accept")
    /\ \/ /\ node.state = "Running" /\ listeners[1] \in node.peers
          /\ log' = Append(log, [op |-> "accept", msg |-> "none", res |-> "Ok"])
          /\ pc' = "readVersion"
          /\ UNCHANGED status
       \/ /\ log' = Append(log, [op |-> "accept", msg |-> "none", res |-> "Err"])
          /\ pc' = "stop"
          /\ UNCHANGED status
       \/ /\ status' = "hung"
          /\ UNCHANGED <<pc, log>>
    /\ UNCHANGED <<gen, synth, scenario, node, rejectVars, fuzz>>

\* handshake.rs:57-58
InitiatorReadVersion ==
    /\ Running("initiator", "readVersion")
    /\ \/ \E r \in ReadResults :
            /\ log' = Append(log, Read(r))
            /\ IF IsVersion(r) THEN pc' = "writeVersion" /\ UNCHANGED status ELSE Panic
       \/ log' = Append(log, Silent) /\ ReadNeverCompletes
    /\ UNCHANGED <<gen, synth, scenario, node, rejectVars, fuzz>>

\* handshake.rs:60-63
InitiatorWriteVersion ==
    /\ Running("initiator", "writeVersion")
    /\ \E r \in WriteResults :
         /\ log' = Append(log, Wrote("Version", r))
         /\ IF r.ok THEN pc' = "readVerack" /\ UNCHANGED status ELSE Panic
    /\ UNCHANGED <<gen, synth, scenario, node, rejectVars, fuzz>>

\* handshake.rs:65-66
InitiatorReadVerack ==
    /\ Running("initiator", "readVerack")
    /\ \/ \E r \in ReadResults :
            /\ log' = Append(log, Read(r))
            /\ IF IsVerack(r) THEN pc' = "writeVerack" /\ UNCHANGED status ELSE Panic
       \/ log' = Append(log, Silent) /\ ReadNeverCompletes
    /\ UNCHANGED <<gen, synth, scenario, node, rejectVars, fuzz>>

\* handshake.rs:68-71
InitiatorWriteVerack ==
    /\ Running("initiator", "writeVerack")
    /\ \E r \in WriteResults :
         /\ log' = Append(log, Wrote("Verack", r))
         /\ IF r.ok THEN pc' = "stop" /\ UNCHANGED status ELSE Panic
    /\ UNCHANGED <<gen, synth, scenario, node, rejectVars, fuzz>>

\* handshake.rs:76-77
InitiatorStop ==
    /\ Running("initiator", "stop")
    /\ node' = NodeStop(node)
    /\ pc' = "done"
    /\ status' = "passed"
    /\ UNCHANGED <<gen, synth, scenario, log, rejectVars, fuzz>>

Initiator ==
    \/ InitiatorBind
    \/ InitiatorStart
    \/ InitiatorAccept
    \/ InitiatorReadVersion
    \/ InitiatorWriteVersion
    \/ InitiatorReadVerack
    \/ InitiatorWriteVerack
    \/ InitiatorStop

\* =================================== reject_non_version_replies_to_version
\* Vec::pop: the vector without its last element
\* (variant: the last element is read but not removed)
PopKeepsLast(s) == s
Pop(s) == SubSeq(s, 1, Len(s) - 1)

\* handshake.rs:137-140  the ports of the listeners
Ports(ls) == {ls[i] : i \in DOMAIN ls}

\* handshake.rs:132-135  one bind per test message, each unwrapped
RejectBind ==
    /\ Running("reject", "begin")
    /\ Len(listeners) < Len(test_messages)
    /\ \E ok \in BOOLEAN :
         IF ok
         THEN /\ listeners' = Append(listeners, ListenerPort(Len(listeners) + 1))
              /\ UNCHANGED <<pc, status>>
         ELSE Panic /\ UNCHANGED listeners
    /\ UNCHANGED <<gen, synth, scenario, node, log, test_messages, cases, handles, joined, fuzz>>

\* handshake.rs:137-144  node.initial_peers(ports)
RejectInitialPeers ==
    /\ Running("reject", "begin")
    /\ Len(listeners) = Len(test_messages)
    /\ node' = NodeInitialPeers(node, Ports(listeners))
    /\ pc' = "spawn"
    /\ UNCHANGED <<gen, synth, scenario, status, log, rejectVars, fuzz>>

\* the task created by tokio::spawn(async move { .. }), handshake.rs:151
NewTask(listener, message) ==
    [listener |-> listener, message |-> message, pc |-> "accept",
     status |-> "running", log |-> <<>>, extra |-> FALSE]

\* handshake.rs:147-151  one iteration of the spawn loop
RejectSpawn ==
    /\ Running("reject", "spawn")
    /\ Len(handles) < Len(cases)
    /\ listeners' = Pop(listeners)
    /\ test_messages' = Pop(test_messages)
    /\ handles' = Append(handles, NewTask(Last(listeners), Last(test_messages)))
    /\ UNCHANGED <<gen, synth, scenario, pc, status, node, log, cases, joined, fuzz>>

\* handshake.rs:196  node.start().await
RejectStart ==
    /\ Running("reject", "spawn")
    /\ Len(handles) = Len(cases)
    /\ node' = NodeStart(node)
    /\ pc' = "join"
    /\ UNCHANGED <<gen, synth, scenario, status, log, rejectVars, fuzz>>

\* the spawned tasks run while the runtime of the test function is alive
TaskRunning(k, p) ==
    /\ scenario = "reject"
    /\ status \in {"running", "hung"}
    /\ k \in DOMAIN handles
    /\ handles[k].status = "running"
    /\ handles[k].pc = p

TaskStep(k, p, st, ev) ==
    /\ handles' = [handles EXCEPT ![k] =
                     [@ EXCEPT !.pc = p, !.status = st, !.log = Append(@, ev)]]
    /\ UNCHANGED <<gen, synth, scenario, pc, status, node, log, listeners, test_messages,
                   cases, joined, fuzz>>

\* handshake.rs:152  listener.accept().await.unwrap()
TaskAccept(k) ==
    /\ TaskRunning(k, "accept")
    /\ \/ /\ node.state = "Running" /\ handles[k].listener \in node.peers
          /\ TaskStep(k, "readVersion", "running",
                      [op |-> "accept", msg |-> "none", res |-> "Ok"])
       \/ TaskStep(k, "accept", "failed", [op |-> "accept", msg |-> "none", res |-> "Err"])
       \/ TaskStep(k, "accept", "hung", [op |-> "accept", msg |-> "none", res |-> "Silence"])

\* handshake.rs:154-156  (1) receive incoming version
TaskReadVersion(k) ==
    /\ TaskRunning(k, "readVersion")
    /\ \/ \E r \in ReadResults :
            IF IsVersion(r)
            THEN TaskStep(k, "writeMessage", "running", Read(r))
            ELSE TaskStep(k, "readVersion", "failed", Read(r))
       \/ TaskStep(k, "readVersion", "hung", Silent)

\* handshake.rs:158-159  (2) send non-version message, unwrapped
TaskWriteMessage(k) ==
    /\ TaskRunning(k, "writeMessage")
    /\ \E r \in WriteResults :
         IF r.ok
         THEN TaskStep(k, "writeVersion", "running", Wrote(handles[k].message, r))
         ELSE TaskStep(k, "writeMessage", "failed", Wrote(handles[k].message, r))

\* handshake.rs:161-166 and 183-191  (3) send version
TaskWriteVersion(k) ==
    /\ TaskRunning(k, "writeVersion")
    /\ \E r \in WriteResults :
         IF r.ok
         THEN TaskStep(k, "readReply", "running", Wrote("Version", r))
         ELSE IF WriteErrorAccepted(r.val)
              THEN TaskStep(k, "done", "passed", Wrote("Version", r))
              ELSE TaskStep(k, "writeVersion", "failed", Wrote("Version", r))

\* handshake.rs:167-180  (4) receive verack in response to our version
TaskReadReply(k) ==
    /\ TaskRunning(k, "readReply")
    /\ \/ \E r \in ReadResults :
            IF r.ok
            THEN IF IsVerack(r)
                 THEN TaskStep(k, "done", "passed", Read(r))
                 ELSE TaskStep(k, "readReply", "failed", Read(r))
            ELSE IF ReadErrorAccepted(r.val)
                 THEN TaskStep(k, "done", "passed", Read(r))
                 ELSE TaskStep(k, "readReply", "failed", Read(r))
       \/ TaskStep(k, "readReply", "hung", Silent)

\* handshake.rs:169 and 193: the task ends with the read of Verack and drops
\* its stream; a message the node sends on that connection afterwards
\* (extra) is not read by anyone
NodeSendsMore(k) ==
    /\ scenario = "reject"
    /\ status \in {"running", "hung"}
    /\ k \in DOMAIN handles
    /\ handles[k].status = "passed"
    /\ handles[k].log[Len(handles[k].log)] = Read(Ok("Verack"))
    /\ ~handles[k].extra
    /\ handles' = [handles EXCEPT ![k].extra = TRUE]
    /\ UNCHANGED <<gen, synth, scenario, pc, status, node, log, listeners, test_messages,
                   cases, joined, fuzz>>

\* (variant: the result of handle.await is dropped, not unwrapped)
RejectJoinIgnoresPanic ==
    /\ Running("reject", "join")
    /\ joined < Len(handles)
    /\ \/ /\ handles[joined + 1].status \in {"passed", "failed"}
          /\ joined' = joined + 1
          /\ UNCHANGED <<pc, status>>
       \/ /\ handles[joined + 1].status = "hung"
          /\ status' = "hung"
          /\ UNCHANGED <<pc, joined>>
    /\ UNCHANGED <<gen, synth, scenario, node, log, listeners, test_messages, cases, handles, fuzz>>

\* handshake.rs:198-200  handle.await.unwrap(), in the order of the vector
RejectJoin ==
    /\ Running("reject", "join")
    /\ joined < Len(handles)
    /\ \/ /\ handles[joined + 1].status = "passed"
          /\ joined' = joined + 1
          /\ UNCHANGED <<pc, status>>
       \/ /\ handles[joined + 1].status = "failed"
          /\ Panic
          /\ UNCHANGED joined
       \/ /\ handles[joined + 1].status = "hung"
          /\ status' = "hung"
          /\ UNCHANGED <<pc, joined>>
    /\ UNCHANGED <<gen, synth, scenario, node, log, listeners, test_messages, cases, handles, fuzz>>

\* handshake.rs:202-203
RejectStop ==
    /\ Running("reject", "join")
    /\ joined = Len(handles)
    /\ node' = NodeStop(node)
    /\ pc' = "done"
    /\ status' = "passed"
    /\ UNCHANGED <<gen, synth, scenario, log, rejectVars, fuzz>>

Reject ==
    \/ RejectBind
    \/ RejectInitialPeers
    \/ RejectSpawn
    \/ RejectStart
    \/ \E k \in 1..MaxCases :
         \/ TaskAccept(k)
         \/ TaskReadVersion(k)
         \/ TaskWriteMessage(k)
         \/ TaskWriteVersion(k)
         \/ TaskReadReply(k)
         \/ NodeSendsMore(k)
    \/ RejectJoin
    \/ RejectStop

\* ======================================================= fuzz scenarios
\* MessageFilter::with_all_auto_reply(): the canonical reply of a kind, or
\* "none" for a kind without a reply rule
AutoReply(kind) ==
    CASE kind = "Ping" -> "Pong"
      [] kind = "Version" -> "Verack"
      [] OTHER -> "none"

Returned(kind, val) == [kind |-> kind, val |-> val]
Looping == [kind |-> "loop", val |-> "none"]

\* MessageFilter::read_from_stream, one round of its loop: r is the result
\* of the underlying read, w the result of writing the reply (if one is
\* written), used the number of underlying reads made before this one.
FilterRound(r, w, used) ==
    IF ~r.ok THEN Returned("err", r.val)
    ELSE IF AutoReply(r.val) = "none" THEN Returned("msg", r.val)
    ELSE IF ~w.ok THEN Returned("err", w.val)
    ELSE IF used + 1 >= RetryBudget THEN Returned("msg", r.val)
    ELSE Looping

\* does the round write a reply
FilterReplies(r) == r.ok /\ AutoReply(r.val) # "none"

\* nonces a Ping of the node may carry (Nonce::default() is 0)
Nonces == {0, 1}

\* the nonce of the canonical reply: a Pong carries the nonce of its Ping
\* (variant: the Pong carries the default nonce)
ReplyNonceDefault(kind, nonce) == 0
ReplyNonce(kind, nonce) == IF kind = "Ping" THEN nonce ELSE 0

\* the round of the filter that read r (a Ping carrying nonce) and got w
\* from writing its reply
FilterRoundLog(r, nonce, w) ==
    IF ~r.ok THEN NoRound
    ELSE [read |-> r.val,
          nonce |-> IF r.val = "Ping" THEN nonce ELSE 0,
          reply |-> AutoReply(r.val),
          rnonce |-> ReplyNonce(r.val, nonce),
          sent |-> FilterReplies(r) /\ w.ok]

\* fuzzing.rs:58-62  the match on the result of the timed read
\* (variant: a returned message is treated as a failure)
ReadFailsOnMessage(res) == res.kind \in {"elapsed", "msg"}
ReadFails(res) ==
    \/ res.kind = "elapsed"
    \/ res.kind = "err" /\ ~is_termination_error(res.val)

\* (variant: start_waits_for_connection is called on the started node)
FuzzStartThenWaits ==
    /\ scenario \in FuzzScenarios /\ status = "running" /\ pc = "begin"
    /\ node' = NodeStartWaits(NodeStart(node))
    /\ pc' = IF NumPayloads > 0 THEN "connect" ELSE "stop"
    /\ UNCHANGED <<gen, synth, scenario, status, log, rejectVars, fuzz>>

\* fuzzing.rs:40-43, 80-83, 120-123
FuzzStart ==
    /\ scenario \in FuzzScenarios /\ status = "running" /\ pc = "begin"
    /\ node' = NodeStart(NodeStartWaits(node))
    /\ pc' = IF NumPayloads > 0 THEN "connect" ELSE "stop"
    /\ UNCHANGED <<gen, synth, scenario, status, log, rejectVars, fuzz>>

\* fuzzing.rs:46, 86, 126  TcpStream::connect(node.addr()).await.unwrap()
FuzzConnect ==
    /\ scenario \in FuzzScenarios /\ status = "running" /\ pc = "connect"
    /\ node' = NodeAddr(node)
    /\ \E ok \in BOOLEAN :
         IF ok
         THEN /\ pc' = IF scenario = "fuzz_meta" THEN "writeHeader" ELSE "writePayload"
              /\ fuzz' = [fuzz EXCEPT !.iter = @ + 1, !.read = 0, !.used = 0,
                                      !.last = [kind |-> "none", val |-> "none"],
                                      !.wrote = "none", !.round = NoRound]
              /\ UNCHANGED status
         ELSE Panic /\ UNCHANGED fuzz
    /\ UNCHANGED <<gen, synth, scenario, log, rejectVars>>

\* fuzzing.rs:127  let _ = header.write_to_stream(&mut peer_stream).await
FuzzWriteHeader ==
    /\ Running("fuzz_meta", "writeHeader")
    /\ \E w \in WriteResults : fuzz' = [fuzz EXCEPT !.wrote = Wrote("header", w).res]
    /\ pc' = "writePayload"
    /\ UNCHANGED <<gen, synth, scenario, status, node, log, rejectVars>>

\* fuzzing.rs:47, 87, 128  let _ = peer_stream.write_all(&payload).await
FuzzWritePayload ==
    /\ scenario \in FuzzScenarios /\ status = "running" /\ pc = "writePayload"
    /\ \E w \in WriteResults : fuzz' = [fuzz EXCEPT !.wrote = Wrote("payload", w).res]
    /\ pc' = "read"
    /\ UNCHANGED <<gen, synth, scenario, status, node, log, rejectVars>>

\* the position after the filtered read number fuzz.read + 1 returned
\* (variant: the loop runs over 0..9)
AfterReadNine ==
    IF fuzz.read + 1 < ReadsPerPayload - 1 THEN "read"
    ELSE IF fuzz.iter < NumPayloads THEN "connect" ELSE "stop"
AfterRead ==
    IF fuzz.read + 1 < ReadsPerPayload THEN "read"
    ELSE IF fuzz.iter < NumPayloads THEN "connect" ELSE "stop"

\* underlying reads made so far by the filtered read in progress
UsedSoFar == IF fuzz.last.kind = "loop" THEN fuzz.used ELSE 0

\* the timed read returned res after n underlying reads: fuzzing.rs:58-62
FuzzHandle(res, n, rd) ==
    /\ fuzz' = [fuzz EXCEPT !.last = res, !.used = n, !.round = rd,
                            !.read = IF ReadFails(res) THEN @ ELSE @ + 1]
    /\ IF ReadFails(res) THEN Panic ELSE pc' = AfterRead /\ UNCHANGED status

\* fuzzing.rs:51-63  timeout(5 s, auto_responder.read_from_stream(..)),
\* one underlying read of the filter per step
FuzzRead ==
    /\ scenario \in FuzzScenarios /\ status = "running" /\ pc = "read"
    /\ \/ FuzzHandle(Returned("elapsed", "none"), UsedSoFar, NoRound)
       \/ \E r \in ReadResults :
            \E w \in IF FilterReplies(r) THEN WriteResults ELSE {Ok("unit")} :
            \E nonce \in IF r.ok /\ r.val = "Ping" THEN Nonces ELSE {0} :
               LET out == FilterRound(r, w, UsedSoFar)
                   rd == FilterRoundLog(r, nonce, w) IN
               IF out.kind = "loop"
               THEN /\ fuzz' = [fuzz EXCEPT !.used = UsedSoFar + 1, !.last = Looping,
                                            !.round = rd]
                    /\ UNCHANGED <<pc, status>>
               ELSE FuzzHandle(out, UsedSoFar + 1, rd)
    /\ UNCHANGED <<gen, synth, scenario, node, log, rejectVars>>

\* fuzzing.rs:66, 106, 147
FuzzStop ==
    /\ scenario \in FuzzScenarios /\ status = "running" /\ pc = "stop"
    /\ node' = NodeStop(node)
    /\ pc' = "done"
    /\ status' = "passed"
    /\ UNCHANGED <<gen, synth, scenario, log, rejectVars, fuzz>>

Fuzz ==
    \/ FuzzStart
    \/ FuzzConnect
    \/ FuzzWriteHeader
    \/ FuzzWritePayload
    \/ FuzzRead
    \/ FuzzStop

Next == Responder \/ Initiator \/ Reject \/ Fuzz

Spec == Init /\ [][Next]_vars

\* ================================================================ claims
Started == Count(node.calls, "start") >= 1
Stops == Count(node.calls, "stop")

\* an event that is the expected, successful one
WroteOk(e, m) == e.op = "write" /\ e.msg = m /\ e.res = "Ok"
ReadOk(e, m) == e.op = "read" /\ e.msg = m /\ e.res = "Ok"
Accepted(e) == e.op = "accept" /\ e.res = "Ok"

\* the last event of a task of the reject scenario, if it has one
Tasks == DOMAIN handles
Finished(t) == t.status # "running" /\ t.log # <<>>

\* C1: in the non-Version-reply scenario a case passes only when the final
\* observed outcome is Verack received or connection terminated; a reply of
\* any other message kind, or no reply at all, ends the case as failed
\* (neither passed nor pending forever).
RejectCaseOutcome ==
    scenario = "reject" =>
      \A k \in Tasks :
        LET t == handles[k]
            e == Last(t.log) IN
        Finished(t) =>
          /\ t.status = "passed" =>
                \/ ReadOk(e, "Verack") /\ t.pc = "done"
                \/ e.res \in TerminationKinds
          /\ (e.op = "read" /\ Len(t.log) = 5
                /\ (e.res = "Silence" \/ (e.res = "Ok" /\ e.msg # "Verack")))
                => t.status = "failed"

\* C2: in the responder handshake the events on the connection are, in
\* order, write Version, read Version, write Verack, read Verack; any
\* deviation (wrong kind, read or write error, premature close) fails the
\* test, and the test passes only after the second read returned Verack.
ResponderExpected(i, e) ==
    CASE i = 1 -> WroteOk(e, "Version")
      [] i = 2 -> ReadOk(e, "Version")
      [] i = 3 -> WroteOk(e, "Verack")
      [] i = 4 -> ReadOk(e, "Verack")
      [] OTHER -> FALSE

ResponderOrder ==
    scenario = "responder" =>
      /\ Len(log) <= 4
      /\ \A i \in DOMAIN log :
            /\ log[i].op = (IF i \in {1, 3} THEN "write" ELSE "read")
            /\ log[i].op = "write" => log[i].msg = (IF i = 1 THEN "Version" ELSE "Verack")
            /\ i < Len(log) => ResponderExpected(i, log[i])
      /\ (log # <<>> /\ ~ResponderExpected(Len(log), Last(log))
             /\ Last(log).res # "Silence") => status = "failed"
      /\ pc \in {"stop", "done"} =>
             Len(log) = 4 /\ ResponderExpected(4, log[4]) /\ status # "failed"
      /\ status = "passed" => pc = "done"

ResponderPassed ==
    scenario = "responder" /\ status = "passed" /\ Len(log) = 4

\* C3: in the initiator handshake the dial list is set before start(), and
\* on the accepted connection the events are, in order, read Version, write
\* Version, read Verack, write Verack; no write precedes the read of the
\* node's Version.
InitiatorExpected(i, e) ==
    CASE i = 1 -> Accepted(e)
      [] i = 2 -> ReadOk(e, "Version")
      [] i = 3 -> WroteOk(e, "Version")
      [] i = 4 -> ReadOk(e, "Verack")
      [] i = 5 -> WroteOk(e, "Verack")
      [] OTHER -> FALSE

InitiatorOrder ==
    scenario = "initiator" =>
      /\ \A i \in DOMAIN node.calls :
            node.calls[i] = "start" =>
               /\ \E j \in 1..(i - 1) : node.calls[j] = "initial_peers"
               /\ \A j \in (i + 1)..Len(node.calls) : node.calls[j] # "initial_peers"
      /\ Started => node.peers = {ListenerPort(1)}
      /\ log # <<>> => Started
      /\ Len(log) <= 5
      /\ \A i \in DOMAIN log :
            /\ log[i].op = (CASE i = 1 -> "accept" [] i \in {2, 4} -> "read"
                               [] OTHER -> "write")
            /\ log[i].op = "write" => log[i].msg = (IF i = 3 THEN "Version" ELSE "Verack")
            /\ i < Len(log) => InitiatorExpected(i, log[i])
            /\ log[i].op = "write" => \E j \in 1..(i - 1) : ReadOk(log[j], "Version")

InitiatorExchanged ==
    /\ scenario = "initiator" /\ status = "passed"
    /\ Len(log) = 5 /\ InitiatorExpected(5, log[5])

\* C4: in the non-Version-reply scenario a connection terminated by the node
\* after its Version passes the case, whether the termination is observed
\* at the write of the injected message (step 2), at the write of the
\* harness's Version (step 3) or at the read of the reply (step 4).
TerminationPasses ==
    scenario = "reject" =>
      \A k \in Tasks :
        LET t == handles[k] IN
        (Finished(t) /\ Len(t.log) \in {3, 4, 5} /\ Last(t.log).res \in TerminationKinds)
           => t.status = "passed"

\* C5: each of the four terminated-connection kinds is accepted as a valid
\* outcome wherever a transport error is classified: by the write-side
\* classifier (step 3) and the read-side classifier (step 4) of the
\* non-Version-reply scenario and by is_termination_error in the fuzz loop.
TerminationClassifiedAlike ==
    /\ scenario = "reject" =>
         \A k \in Tasks :
           LET t == handles[k] IN
           (Finished(t) /\ Len(t.log) \in {4, 5} /\ Last(t.log).res \in TerminationKinds)
              => t.status = "passed"
    /\ (scenario \in FuzzScenarios /\ pc = "read" /\ fuzz.last.kind = "err"
          /\ fuzz.last.val \in TerminationKinds) => status # "failed"

\* C6: every blocking read on a peer connection has a timeout: a read on a
\* connection the node keeps open without sending ends with a Timeout
\* outcome and is never pending forever, in every scenario.
EveryReadTimesOut ==
    /\ ~(status = "hung" /\ log # <<>> /\ Last(log).res = "Silence")
    /\ \A k \in Tasks :
         LET t == handles[k] IN
         ~(t.status = "hung" /\ t.log # <<>>
             /\ Last(t.log).op = "read" /\ Last(t.log).res = "Silence")
    /\ (scenario \in FuzzScenarios /\ fuzz.last.kind = "elapsed") => status = "failed"

\* C7: a transport error that is neither a timeout nor a terminated
\* connection fails the scenario on every read and every write it performs
\* on a peer connection; none is dropped.
OtherErrorsAreFatal ==
    /\ (log # <<>> /\ Last(log).res \in OtherErrKinds) => status = "failed"
    /\ \A k \in Tasks :
         LET t == handles[k] IN
         (t.log # <<>> /\ Last(t.log).res \in OtherErrKinds) => t.status = "failed"
    /\ scenario \in FuzzScenarios =>
         /\ fuzz.wrote \in OtherErrKinds => status = "failed"
         /\ (pc = "read" /\ fuzz.last.kind = "err" /\ fuzz.last.val \in OtherErrKinds)
               => status = "failed"

\* C8: a peer that only sends auto-replyable messages never keeps a
\* filtered read of a fuzz iteration past its retry budget: the read returns
\* after at most RetryBudget underlying reads with the last message read,
\* and that return does not fail the run.
FloodReturn == fuzz.last.kind = "msg" /\ AutoReply(fuzz.last.val) # "none"

FilterWithinBudget ==
    scenario \in FuzzScenarios =>
      /\ fuzz.used <= RetryBudget
      /\ fuzz.last.kind = "loop" => fuzz.used < RetryBudget
      /\ FloodReturn => fuzz.used = RetryBudget
      /\ (FloodReturn /\ pc = "read") => status = "running"

FloodReturned ==
    /\ scenario \in FuzzScenarios /\ pc = "read" /\ status = "running"
    /\ fuzz.last = Returned("msg", "Ping") /\ fuzz.used = RetryBudget

\* C9: in the non-Version-reply scenario one listener per test message is
\* bound before the node starts, the dial list is exactly the set of the
\* listeners' ports, and every listener is moved into exactly one task with
\* exactly one test message: none is shared, none is left over.
RejectOwnership ==
    scenario = "reject" =>
      LET n == Len(cases) IN
      /\ Len(listeners) <= n
      /\ pc # "begin" =>
            /\ Len(listeners) = n - Len(handles)
            /\ Len(test_messages) = n - Len(handles)
            /\ node.peers = {ListenerPort(i) : i \in 1..n}
            /\ Cardinality(node.peers) = n
      /\ \A j, k \in Tasks : j # k => handles[j].listener # handles[k].listener
      /\ \A k \in Tasks :
            /\ handles[k].listener \in node.peers
            /\ handles[k].listener \notin Ports(listeners)
            /\ handles[k].listener = ListenerPort(n - k + 1)
            /\ handles[k].message = cases[n - k + 1]
      /\ Started =>
            /\ Len(handles) = n /\ listeners = <<>> /\ test_messages = <<>>
            /\ node.peers = {handles[k].listener : k \in Tasks}
            /\ node.calls = <<"initial_peers", "start">> \/ node.calls[3] = "stop"

AllCasesSpawned ==
    /\ scenario = "reject" /\ node.state = "Running"
    /\ Len(handles) = MaxCases
    /\ \A k \in Tasks : handles[k].status = "passed"

\* C10: the node is started once and stopped exactly once: on every path of
\* a scenario that started the node and ended, by returning or by a panic,
\* stop() was called exactly one time after start().
StoppedExactlyOnce ==
    /\ Count(node.calls, "start") <= 1
    /\ Stops <= 1
    /\ Stops = 1 => Started /\ Last(node.calls) = "stop"
    /\ (Started /\ status \in {"passed", "failed"}) => Stops = 1

\* C11: every scenario respects the lifecycle NotStarted -> Running ->
\* Stopped of the node handle: initial_peers and start_waits_for_connection
\* are called only on a node not yet started, addr() is called and
\* connections are opened only while it runs, and nothing is configured or
\* connected after stop().
ConfigCalls == {"initial_peers", "start_waits_for_connection"}

LifecycleRespected ==
    /\ \A i \in DOMAIN node.calls :
         LET before == {node.calls[j] : j \in 1..(i - 1)} IN
         /\ node.calls[i] \in ConfigCalls => before \subseteq ConfigCalls
         /\ node.calls[i] = "start" => before \subseteq ConfigCalls
         /\ node.calls[i] = "addr" => "start" \in before /\ "stop" \notin before
         /\ node.calls[i] = "stop" => "start" \in before /\ i = Len(node.calls)
    /\ node.state = "NotStarted" <=> ~Started
    /\ node.state = "Stopped" <=> Stops >= 1
    /\ (log # <<>> /\ scenario \in {"responder", "initiator"}) => Started
    /\ \A k \in Tasks :
         (handles[k].log # <<>> /\ Accepted(handles[k].log[1])) => Started
    /\ node.state = "Stopped" =>
         /\ pc = "done" /\ status = "passed"
         /\ \A k \in Tasks : handles[k].status = "passed"

LifecycleCompleted ==
    /\ scenario \in FuzzScenarios /\ node.state = "Stopped"
    /\ Count(node.calls, "addr") = NumPayloads
    /\ node.calls[1] = "start_waits_for_connection"

\* C12: in the non-Version-reply scenario a node that sends the expected
\* Verack and then further traffic on the same connection is detected: the
\* case fails and does not pass.
TrafficAfterVerackFails ==
    scenario = "reject" =>
      \A k \in Tasks : handles[k].extra => handles[k].status = "failed"

\* =========================================== fuzz payload generators
\* fuzzing.rs:169
MAX_MESSAGE_LEN == 2 * 1024 * 1024

\* largest n a generator is called with
MaxBuffers == 2

\* rng.gen_range(lo..hi): a value of the half-open range; the draws followed
\* are its two ends
\* (variant: the range is closed, lo..=hi)
GenRangeInclusive(lo, hi) == {lo, hi}
GenRange(lo, hi) == {lo, hi - 1}

\* contents of a buffer of random bytes (sample_iter(Standard)), abstracted
RandomContents == {"r1", "r2"}

\* a byte buffer: its length and what fills it
Buffer(len, bytes) == [len |-> len, bytes |-> bytes]

\* fuzzing.rs:176-177  vec![0u8; random_len]
ZeroBuffers == {Buffer(l, "zeros") : l \in GenRange(1, MAX_MESSAGE_LEN * 2)}

\* fuzzing.rs:185-191 and 204-206  sample_iter(Standard).take(random_len)
RandomBuffers ==
    {Buffer(l, c) : l \in GenRange(1, 64 * 1024), c \in RandomContents}

\* fuzzing.rs:208-225  the array commands
commands ==
    <<"version", "verack", "ping", "pong", "getaddr", "addr", "getheaders",
      "headers", "getblocks", "block", "getdata", "inv", "notfound", "mempool",
      "tx", "reject">>

\* the known command identifiers of the wire format
KnownCommands ==
    {"version", "verack", "ping", "pong", "getaddr", "addr", "getheaders",
     "headers", "getblocks", "block", "getdata", "inv", "notfound", "mempool",
     "tx", "reject"}

\* first 4 bytes of digest(digest(payload)), abstracted as a value that
\* depends on the payload only
Checksum(payload) == <<"digest", payload.len, payload.bytes>>

\* MessageHeader::new(command, payload)
MessageHeaderNew(command, payload) ==
    [command |-> command, length |-> payload.len, checksum |-> Checksum(payload)]

\* fuzzing.rs:227-229  (header, random_payload)
\* (variant: the header is built from an empty slice)
MetaPairOfEmpty(command, payload) ==
    <<MessageHeaderNew(command, Buffer(0, "zeros")), payload>>
MetaPair(command, payload) == <<MessageHeaderNew(command, payload), payload>>

GenFns == {"zeroes", "random_bytes", "metadata_compliant_random_bytes"}

GenCall(fn, n) == [fn |-> fn, n |-> n, out |-> <<>>, done |-> FALSE]

GenInit ==
    /\ gen \in {GenCall(fn, n) : fn \in GenFns, n \in 0..MaxBuffers}
    /\ synth = SynthIdle
    /\ scenario = "none"
    /\ pc = "begin"
    /\ status = "running"
    /\ node = NodeNew
    /\ log = <<>>
    /\ listeners = <<>>
    /\ cases = <<>>
    /\ test_messages = <<>>
    /\ handles = <<>>
    /\ joined = 0
    /\ fuzz = FuzzInit

genFrame == <<scenario, pc, status, node, log, listeners, test_messages, cases,
              handles, joined, fuzz, synth>>

GenEmit(fn, items) ==
    /\ gen.fn = fn
    /\ ~gen.done
    /\ Len(gen.out) < gen.n
    /\ \E x \in items : gen' = [gen EXCEPT !.out = Append(@, x)]
    /\ UNCHANGED genFrame

\* fuzzing.rs:172-180  one element of (0..n).map(..) of zeroes
ZeroesNext == GenEmit("zeroes", ZeroBuffers)

\* fuzzing.rs:182-194  one element of (0..n).map(..) of random_bytes
RandomBytesNext == GenEmit("random_bytes", RandomBuffers)

\* fuzzing.rs:196-232  one element of metadata_compliant_random_bytes
MetadataCompliantNext ==
    GenEmit("metadata_compliant_random_bytes",
            {MetaPair(commands[i], p) : i \in DOMAIN commands, p \in RandomBuffers})

\* .collect(): the iterator 0..n is exhausted and the vector is returned
GenCollect ==
    /\ gen.fn \in GenFns
    /\ ~gen.done
    /\ Len(gen.out) = gen.n
    /\ gen' = [gen EXCEPT !.done = TRUE]
    /\ UNCHANGED genFrame

GenNext == ZeroesNext \/ RandomBytesNext \/ MetadataCompliantNext \/ GenCollect

GenSpec == GenInit /\ [][GenNext]_vars

\* C13: zeroes(n) and random_bytes(n) each return exactly n buffers; a
\* buffer of zeroes(n) has a length in [1, 2*MAX_MESSAGE_LEN) and only zero
\* bytes, a buffer of random_bytes(n) has a length in [1, 64 KiB); none is
\* empty.
BufferCorpusShape ==
    gen.fn \in {"zeroes", "random_bytes"} =>
      /\ Len(gen.out) <= gen.n
      /\ gen.done => Len(gen.out) = gen.n
      /\ \A i \in DOMAIN gen.out :
            /\ gen.out[i].len >= 1
            /\ gen.fn = "zeroes" =>
                  gen.out[i].len < 2 * MAX_MESSAGE_LEN /\ gen.out[i].bytes = "zeros"
            /\ gen.fn = "random_bytes" => gen.out[i].len < 64 * 1024

LongestZeroesReturned ==
    /\ gen.fn = "zeroes" /\ gen.done /\ gen.n = MaxBuffers
    /\ \E i \in DOMAIN gen.out : gen.out[i].len = 2 * MAX_MESSAGE_LEN - 1
    /\ \E i \in DOMAIN gen.out : gen.out[i].len = 1

\* C14: metadata_compliant_random_bytes(n) returns exactly n (header,
\* payload) pairs; in each the header's command is one of the 16 known
\* identifiers, its declared length is the length of the paired payload and
\* its checksum is the checksum of that payload.
MetadataCorpusShape ==
    gen.fn = "metadata_compliant_random_bytes" =>
      /\ Len(gen.out) <= gen.n
      /\ gen.done => Len(gen.out) = gen.n
      /\ Cardinality(KnownCommands) = 16
      /\ \A i \in DOMAIN gen.out :
            LET header == gen.out[i][1]
                payload == gen.out[i][2] IN
            /\ header.command \in KnownCommands
            /\ header.length = payload.len
            /\ header.checksum = Checksum(payload)
            /\ payload.len >= 1 /\ payload.len < 64 * 1024

MetadataPairsReturned ==
    /\ gen.fn = "metadata_compliant_random_bytes" /\ gen.done /\ gen.n = MaxBuffers
    /\ gen.out[1][1].command = "reject" /\ gen.out[1][1].length = 64 * 1024 - 1
    /\ gen.out[2][1].command = "version" /\ gen.out[2][2].bytes = "r2"

\* C15: a filtered read with the all-auto-reply policy answers every
\* auto-replyable message before it loops: a Ping with a Pong of the same
\* nonce, a Version with a Verack; none of these messages is returned to the
\* caller; a message without a reply rule is returned at once and no reply
\* is written for it.
FilterAnswers ==
    scenario \in FuzzScenarios =>
      LET rd == fuzz.round IN
      /\ fuzz.last.kind = "loop" => rd.read \in {"Ping", "Version"} /\ rd.sent
      /\ rd.sent =>
            /\ rd.read = "Ping" => rd.reply = "Pong" /\ rd.rnonce = rd.nonce
            /\ rd.read = "Version" => rd.reply = "Verack"
            /\ rd.read \in {"Ping", "Version"}
      /\ (rd.read \in MsgKinds \ {"Ping", "Version"}) =>
            ~rd.sent /\ rd.reply = "none" /\ fuzz.last = Returned("msg", rd.read)

ReadFailed ==
    /\ pc = "read"
    /\ \/ fuzz.last.kind = "elapsed"
       \/ fuzz.last.kind = "err" /\ ~is_termination_error(fuzz.last.val)

ConnectFailed == pc = "connect" /\ status = "failed"

FuzzLoopShape ==
    scenario \in FuzzScenarios =>
      /\ fuzz.iter <= NumPayloads /\ fuzz.read <= ReadsPerPayload
      /\ Count(node.calls, "addr") = fuzz.iter + (IF ConnectFailed THEN 1 ELSE 0)
      /\ (pc = "connect" /\ fuzz.iter >= 1) => fuzz.read = ReadsPerPayload
      /\ pc \in {"stop", "done"} =>
            /\ fuzz.iter = NumPayloads
            /\ NumPayloads > 0 => fuzz.read = ReadsPerPayload
      /\ pc \in {"writeHeader", "writePayload"} =>
            fuzz.read = 0 /\ fuzz.last.kind = "none" /\ status = "running"
      /\ pc = "read" => fuzz.read < ReadsPerPayload /\ fuzz.wrote # "none"
      /\ (pc = "read" /\ fuzz.last.kind \in {"none", "loop", "msg"}) => status = "running"
      /\ (pc = "read" /\ fuzz.last.kind = "err" /\ is_termination_error(fuzz.last.val))
            => status = "running"
      /\ ReadFailed => status = "failed"

\* the claim as stated: the scenario fails if and only if a read fails
FuzzFailsIffReadFails ==
    /\ FuzzLoopShape
    /\ scenario \in FuzzScenarios => (status = "failed" <=> ReadFailed)

\* the claim as amended: it also fails when a connection cannot be opened
FuzzFailsIffReadOrConnectFails ==
    /\ FuzzLoopShape
    /\ scenario \in FuzzScenarios => (status = "failed" <=> (ReadFailed \/ ConnectFailed))
    /\ scenario \in FuzzScenarios => (status \in {"running", "passed", "failed"})

TenReadsAfterTermination ==
    /\ scenario \in FuzzScenarios /\ pc = "connect" /\ status = "running"
    /\ fuzz.iter = 1 /\ fuzz.read = ReadsPerPayload
    /\ fuzz.last = Returned("err", "BrokenPipe")
    /\ fuzz.wrote = "InvalidData"

\* C17: in the non-Version-reply scenario the per-case tasks are independent
\* and all joined before the node is stopped: every task is spawned before
\* node.start(), node.stop() is reached only after every task completed, a
\* step of one task changes neither another task nor the state of the test
\* function, and the scenario passes only if every task passed.
JoinedBeforeStop ==
    scenario = "reject" =>
      /\ Started => Len(handles) = Len(cases)
      /\ joined <= Len(handles)
      /\ \A k \in 1..joined : handles[k].status = "passed"
      /\ Stops >= 1 => joined = Len(handles) /\ Len(handles) = Len(cases)
      /\ status = "passed" =>
            pc = "done" /\ Stops = 1 /\ \A k \in Tasks : handles[k].status = "passed"

TaskStepIsLocal ==
    \A k \in Tasks :
       (k \in DOMAIN handles' /\ handles'[k] # handles[k]) =>
          /\ DOMAIN handles' = DOMAIN handles
          /\ \A j \in Tasks \ {k} : handles'[j] = handles[j]
          /\ UNCHANGED <<pc, status, joined, node, listeners, test_messages>>

TasksIndependentAndJoined == [](JoinedBeforeStop) /\ [][TaskStepIsLocal]_vars

AllCasesJoined ==
    /\ scenario = "reject" /\ status = "passed" /\ joined = MaxCases
    /\ node.state = "Stopped"

\* C18: the non-Version-reply scenario always terminates: whatever the node
\* does after start (never dialling a listener, or connecting and staying
\* silent), no task and no join waits forever, so every task finishes, the
\* join loop completes and node.stop() is called.
RejectNeverStalls ==
    scenario = "reject" =>
      /\ status # "hung"
      /\ \A k \in Tasks : handles[k].status # "hung"

\* C19: the initiator handshake passes only if the complete exchange took
\* place: a finished, non-failed handshake_initiator_side has accepted the
\* node's connection, read Version, written Version, read Verack and written
\* Verack; a failed accept is not a pass.
InitiatorPassMeansExchange ==
    (scenario = "initiator" /\ status = "passed") =>
      /\ Len(log) = 5
      /\ \A i \in 1..5 : InitiatorExpected(i, log[i])

\* ------------------------------------------------------------------
\* synth_node_bin action quick_connect_and_then_clean_disconnect

\* bound on the messages waiting unread on the synthetic node
MaxInbox == 2

\* the addresses an action may be run against
Addrs == {"addr1", "addr2"}

\* messages a peer may have sent that the synthetic node has not read yet
InboxKinds == {"Version", "Ping"}

\* the state of a SyntheticNode: its connected peers, the messages waiting
\* to be read and the messages it has written
SynthNodes ==
    [connected : SUBSET Addrs,
     inbox     : UNION {[1..n -> InboxKinds] : n \in 0..MaxInbox},
     outbox    : {<<>>}]

\* ActionCfg::default()
ActionCfgDefault == "ActionCfg::default()"

\* a call site holding an Action, a synthetic node and an address; node0
\* remembers the node as it was handed to the action
ActInit ==
    /\ synth \in {[pc |-> "action", node |-> n, node0 |-> n, addr |-> a,
                   cfg |-> "unset", ret |-> "none", out |-> <<>>] :
                      n \in SynthNodes, a \in Addrs}
    /\ gen = GenIdle
    /\ scenario = "none"
    /\ pc = "begin"
    /\ status = "running"
    /\ node = NodeNew
    /\ log = <<>>
    /\ listeners = <<>>
    /\ cases = <<>>
    /\ test_messages = <<>>
    /\ handles = <<>>
    /\ joined = 0
    /\ fuzz = FuzzInit

actFrame == <<scenario, pc, status, node, log, listeners, test_messages, cases,
              handles, joined, fuzz, gen>>

\* quick_connect_and_then_clean_disconnect.rs:20-22  config
ActConfig ==
    /\ synth.pc = "action"
    /\ synth.cfg = "unset"
    /\ synth' = [synth EXCEPT !.cfg = ActionCfgDefault]
    /\ UNCHANGED actFrame

ActRunSendsVersion ==
    /\ synth.pc = "action"
    /\ synth.ret = "none"
    /\ synth' = [synth EXCEPT
                   !.out = <<"connected to " \o synth.addr, "disconnecting">>,
                   !.node.outbox = Append(@, "Version"),
                   !.ret = "Ok"]
    /\ UNCHANGED actFrame

\* quick_connect_and_then_clean_disconnect.rs:24-33  run: two println!, Ok(())
ActRun ==
    /\ synth.pc = "action"
    /\ synth.ret = "none"
    /\ synth' = [synth EXCEPT
                   !.out = <<"connected to " \o synth.addr, "disconnecting">>,
                   !.ret = "Ok"]
    /\ UNCHANGED actFrame

ActNext == ActConfig \/ ActRun

ActSpec == ActInit /\ [][ActNext]_vars

\* C20: quick_connect_and_then_clean_disconnect only connects and
\* disconnects: for every synthetic node and address, run reads and writes
\* no protocol message on the synthetic node, leaves its state as it was
\* handed over and returns Ok; config returns the default ActionCfg.
QuickConnectFrame ==
    synth.pc = "action" =>
      /\ synth.ret \in {"none", "Ok"}
      /\ synth.node = synth.node0
      /\ synth.node.outbox = <<>>
      /\ Len(synth.node.inbox) = Len(synth.node0.inbox)
      /\ synth.cfg \in {"unset", ActionCfgDefault}
      /\ synth.ret = "Ok" =>
            synth.out = <<"connected to " \o synth.addr, "disconnecting">>

QuickConnectRan ==
    /\ synth.pc = "action"
    /\ synth.ret = "Ok"
    /\ synth.cfg = ActionCfgDefault
    /\ synth.node.inbox # <<>>
    /\ synth.addr \notin synth.node.connected
====
